---------------------------- MODULE Spec2Model ----------------------------
(***************************************************************************)
(* Model of the scoring-and-selection engine of rust-wasm-llm:             *)
(*   src/src/llm/sampler.rs  (Sampler, softmax, top_k_filtering,           *)
(*                            top_p_filtering, argmax, multinomial_sample) *)
(*   src/src/llm/mod.rs      (GenerationConfig)                            *)
(*                                                                         *)
(* Numbers.  The code computes in f32.  The model computes in fixed point  *)
(* with round-to-nearest after every division, so that finite precision    *)
(* (probabilities that do not sum to exactly 1, underflow of exp to 0) is  *)
(* part of the model:                                                      *)
(*   - a logit x is the integer x * LogitScale;                            *)
(*   - a probability, top_p and a random draw q are the integer            *)
(*     q * ProbScale;                                                      *)
(*   - temperature and repetition_penalty are rationals [num, den];        *)
(*   - +infinity (a positive logit divided by a zero penalty) is PosInf    *)
(*     and the NaN that softmax makes of it is NaN.                        *)
(* Token ids are 0-based as in the code; sequences are 1-based, so the     *)
(* token id of position i of a vector is i - 1.                            *)
(***************************************************************************)
EXTENDS Integers, Sequences, FiniteSets, TLC

VARIABLES
    generated_tokens,   \* Sampler.generated_tokens : Vec<u32>
    token_counts,       \* Sampler.token_counts : HashMap<u32, usize>
    logits,             \* the score vector the caller holds for the next call
    config,             \* the GenerationConfig the caller holds
    ret,                \* outcome of the last Sampler call
    adjusted,           \* adjusted_logits after step 1 of the last sample call
    final_probs,        \* probs after step 5 of the last sample call
    \* a second Sampler instance, driven with the same arguments as the first
    twin_mode,          \* "off": not constructed; "on": constructed
    twin_tokens,        \* the twin's generated_tokens
    twin_counts,        \* the twin's token_counts
    twin_ret,           \* outcome of the twin's last call
    \* one call of a filter function of sampler.rs
    f_probs,            \* argument probs
    f_param,            \* argument k (top_k_filtering) or p (top_p_filtering)
    f_fn,               \* "none", "top_k", "top_p", or "fed" (see Feed)
    f_out,              \* the vector returned
    \* rag/vector_db.rs
    chunks,             \* VectorDatabase.chunks : Vec<Chunk>
    db_ret,             \* the last VectorDatabase call and its outcome
    \* one call of rag/embeddings.rs cosine_similarity
    cs_a,               \* argument a
    cs_b,               \* argument b
    cs_ret,             \* its outcome
    \* storage/cache.rs
    data,               \* MemoryCache.data : HashMap<K, V>
    max_size,           \* MemoryCache.max_size
    cache_ret,          \* the last MemoryCache call and its outcome
    insertion_order,    \* the keys of data, the earliest inserted first (kept
                        \* beside the HashMap, which has no order of its own)
    strategy,           \* DocumentChunker.strategy : FixedSize { size, overlap }
    content_len,        \* document.content.len() of the document being chunked
    start,              \* chunk_fixed_size: `start`
    doc_chunks,         \* chunk_fixed_size: `chunks`
    chunk_pc,           \* where the call of chunk is
    tokenizer,          \* PhiModel.tokenizer : Option<TokenizerWrapper>
    model_loaded,       \* PhiModel.model_loaded
    phi_ret,            \* the last PhiModel call and its outcome
    callback_calls      \* invocations of the callback in the last call

samplerVars == <<generated_tokens, token_counts, logits, config, ret,
                 adjusted, final_probs>>
twinVars == <<twin_mode, twin_tokens, twin_counts, twin_ret>>
filterVars == <<f_probs, f_param, f_fn, f_out>>

dbVars == <<chunks, db_ret>>
cosineVars == <<cs_a, cs_b, cs_ret>>
cacheVars == <<data, max_size, cache_ret, insertion_order>>
llmVars == <<samplerVars, twinVars, filterVars>>
chunkerVars == <<strategy, content_len, start, doc_chunks, chunk_pc>>
phiVars == <<tokenizer, model_loaded, phi_ret, callback_calls>>
nonLlmVars == <<dbVars, cosineVars, cacheVars, chunkerVars, phiVars>>

vars == <<llmVars, nonLlmVars>>

-----------------------------------------------------------------------------
(* Bounds of the model *)

\* longest score vector (vocabulary size) the caller produces
MaxVocab == 2
\* number of tokens one sampler emits before the generation stops
MaxHist == 3

(* Fixed-point scales (see the header) *)
LogitScale == 2 * 2
ProbScale == 10 ^ 3
PosInf == 10 ^ 6
NaN == 0 - 1

-----------------------------------------------------------------------------
(* Arithmetic helpers *)

Min2(a, b) == IF a <= b THEN a ELSE b

\* a / b rounded to the nearest integer (halves away from zero), b > 0
RoundDiv(a, b) ==
    IF a >= 0 THEN (2 * a + b) \div (2 * b)
    ELSE 0 - ((2 * (0 - a) + b) \div (2 * b))

RECURSIVE Pow(_, _)
Pow(b, e) == IF e = 0 THEN 1 ELSE b * Pow(b, e - 1)

RECURSIVE SumTo(_, _)
\* s[1] + ... + s[n], accumulated left to right
SumTo(s, n) == IF n = 0 THEN 0 ELSE SumTo(s, n - 1) + s[n]

SumSeq(s) == SumTo(s, Len(s))

\* exp(-d / LogitScale) * ProbScale rounded to nearest, d = 0, 1, 2, ...
ExpTable ==
    << 1000, 779, 607, 472, 368, 287, 223, 174, 135, 105, 82, 64, 50, 39,
       30, 24, 18, 14, 11, 9, 7, 5, 4, 3, 2, 2, 2, 1, 1, 1, 1 >>

\* exp of a non-positive fixed-point argument; underflows to 0 like f32::exp
ExpNeg(x) == IF 0 - x < Len(ExpTable) THEN ExpTable[(0 - x) + 1] ELSE 0

HasNaN(probs) == \E i \in 1..Len(probs) : probs[i] = NaN

-----------------------------------------------------------------------------
(* sampler.rs: the free functions *)

MaxOf(s) == CHOOSE m \in {s[i] : i \in 1..Len(s)} :
                \A i \in 1..Len(s) : s[i] <= m

\* softmax without the division by the sum
softmax_NoNormalize(ls) ==
    IF Len(ls) = 0 THEN <<>>
    ELSE LET max_logit == MaxOf(ls)
         IN  [i \in 1..Len(ls) |-> ExpNeg(ls[i] - max_logit)]

\* fn softmax.  A +inf logit makes max_logit +inf, inf - inf = NaN, and the
\* NaN sum makes every quotient NaN.
softmax(ls) ==
    IF Len(ls) = 0 THEN <<>>
    ELSE IF \E i \in 1..Len(ls) : ls[i] = PosInf
    THEN [i \in 1..Len(ls) |-> NaN]
    ELSE LET max_logit == MaxOf(ls)
             exp_logits == [i \in 1..Len(ls) |-> ExpNeg(ls[i] - max_logit)]
             sum == SumSeq(exp_logits)
         IN  [i \in 1..Len(ls) |-> RoundDiv(exp_logits[i] * ProbScale, sum)]

\* indexed_probs after sort_by(|a, b| b.1.partial_cmp(&a.1)): the positions
\* of probs by descending probability; slice::sort_by is stable, so equal
\* probabilities stay in index order.
SortedDesc(probs) ==
    LET n == Len(probs)
        before(j, i) == probs[j] > probs[i] \/ (probs[j] = probs[i] /\ j < i)
        rank(i) == Cardinality({j \in 1..n : before(j, i)}) + 1
    IN  [pos \in 1..n |-> CHOOSE i \in 1..n : rank(i) = pos]

\* the filtered vector and its renormalisation, shared shape of both filters:
\* keep the first `cut` entries of the sorted order, zero the rest, divide by
\* the kept sum when it is positive
KeepPrefix(probs, cut) ==
    LET n == Len(probs)
        indexed_probs == SortedDesc(probs)
        kept == {indexed_probs[j] : j \in 1..cut}
        filtered == [i \in 1..n |-> IF i \in kept THEN probs[i] ELSE 0]
        sum == SumTo([j \in 1..n |-> probs[indexed_probs[j]]], cut)
    IN  IF sum > 0
        THEN [i \in 1..n |-> RoundDiv(filtered[i] * ProbScale, sum)]
        ELSE filtered

\* top_k_filtering taking one pair too many
top_k_filtering_TakeMore(probs, k) == KeepPrefix(probs, Min2(k + 1, Len(probs)))

\* fn top_k_filtering(probs, k): iter().take(k) of the sorted pairs
top_k_filtering(probs, k) == KeepPrefix(probs, Min2(k, Len(probs)))

\* the cutoff_idx of top_p_filtering: one past the first sorted position at
\* which the cumulative sum is >= p, the whole length when there is none
CutoffIdx(probs, p) ==
    LET n == Len(probs)
        indexed_probs == SortedDesc(probs)
        sorted == [j \in 1..n |-> probs[indexed_probs[j]]]
        reached == {i \in 1..n : SumTo(sorted, i) >= p}
    IN  IF reached = {} THEN n
        ELSE CHOOSE i \in reached : \A j \in reached : i <= j

\* fn top_p_filtering(probs, p)
top_p_filtering(probs, p) == KeepPrefix(probs, CutoffIdx(probs, p))

\* argmax returning the 1-based position
argmax_OneBased(probs) ==
    IF Len(probs) = 0 THEN 0
    ELSE LET m == MaxOf(probs)
             best == {i \in 1..Len(probs) : probs[i] = m}
         IN  CHOOSE i \in best : \A j \in best : j <= i

\* fn argmax: Iterator::max_by returns the LAST of several equal maxima;
\* unwrap_or(0) on an empty slice.  (0-based result.)
argmax(probs) ==
    IF Len(probs) = 0 THEN 0
    ELSE LET m == MaxOf(probs)
             best == {i \in 1..Len(probs) : probs[i] = m}
         IN  (CHOOSE i \in best : \A j \in best : j <= i) - 1

\* fn multinomial_sample(probs) with the random value r and the build
\* (wasm: target_arch = "wasm32").  Both builds return the first index at
\* which random_value <= cumulative; the wasm build then falls back to the
\* last index with prob > 0; both end in argmax(probs).  (0-based result.)
multinomial_sample(probs, r, wasm) ==
    LET n == Len(probs)
        hit == {i \in 1..n : r <= SumTo(probs, i)}
        nonzero == {i \in 1..n : probs[i] > 0}
    IN  IF hit # {}
        THEN (CHOOSE i \in hit : \A j \in hit : i <= j) - 1
        ELSE IF wasm /\ nonzero # {}
        THEN (CHOOSE i \in nonzero : \A j \in nonzero : j <= i) - 1
        ELSE argmax(probs)

-----------------------------------------------------------------------------
(* mod.rs: GenerationConfig, and the values the caller chooses from *)

Rat(n, d) == [num |-> n, den |-> d]

\* temperature: 0.0 (greedy), 1.0, 2.0
Temperatures == {Rat(0, 1), Rat(1, 1), Rat(2, 1)}
\* top_k: 0 disables the filter
TopKs == {0, 1, 2}
\* top_p: 0.5, 1.0
TopPs == {ProbScale \div 2, ProbScale}
\* repetition_penalty: 0.0, 1.0 (neutral), 2.0
Penalties == {Rat(0, 1), Rat(1, 1), Rat(2, 1)}

GenerationConfig ==
    [temperature : Temperatures, top_k : TopKs, top_p : TopPs,
     repetition_penalty : Penalties]

\* raw logits: -1.0, 0.0, 2.0
LogitVals == {(0 - 1) * LogitScale, 0, 2 * LogitScale}

LogitVectors == UNION {[1..n -> LogitVals] : n \in 0..MaxVocab}

\* values of the uniform random draw in [0, 1)
Draws == {0, ProbScale \div 2, ProbScale - 1}

-----------------------------------------------------------------------------
(* sampler.rs: Sampler *)

EmptyMap == [t \in {} |-> 0]

\* the orders in which `for (token_id, &count) in &self.token_counts` may
\* visit the keys: HashMap iteration order is unspecified
IterOrders(keys) ==
    {o \in [1..Cardinality(keys) -> keys] :
        \A i, j \in 1..Cardinality(keys) : i # j => o[i] # o[j]}

\* PenalizeOne with penalty in place of penalty.powi(count)
PenalizeOne_Once(ls, penalty, token_id, count) ==
    LET idx == token_id + 1
    IN  IF token_id < Len(ls)
        THEN IF ls[idx] > 0
             THEN [ls EXCEPT ![idx] =
                      IF penalty.num = 0 \/ @ = PosInf THEN PosInf
                      ELSE RoundDiv(@ * penalty.den, penalty.num)]
             ELSE [ls EXCEPT ![idx] = RoundDiv(@ * penalty.num, penalty.den)]
        ELSE ls

\* PenalizeOne with the two branches the wrong way round
PenalizeOne_Swapped(ls, penalty, token_id, count) ==
    LET idx == token_id + 1
        tnum == Pow(penalty.num, count)
        tden == Pow(penalty.den, count)
    IN  IF token_id < Len(ls)
        THEN IF ls[idx] > 0
             THEN [ls EXCEPT ![idx] = RoundDiv(@ * tnum, tden)]
             ELSE [ls EXCEPT ![idx] =
                      IF tnum = 0 THEN 0 ELSE RoundDiv(@ * tden, tnum)]
        ELSE ls

\* body of the loop of apply_repetition_penalty for one (token_id, count)
PenalizeOne(ls, penalty, token_id, count) ==
    LET idx == token_id + 1
        tnum == Pow(penalty.num, count)
        tden == Pow(penalty.den, count)
    IN  IF token_id < Len(ls)
        THEN IF ls[idx] > 0
             THEN [ls EXCEPT ![idx] =
                      IF tnum = 0 \/ @ = PosInf THEN PosInf
                      ELSE RoundDiv(@ * tden, tnum)]
             ELSE [ls EXCEPT ![idx] = RoundDiv(@ * tnum, tden)]
        ELSE ls

\* PenalizeAll leaving the loop after the first key it visits
PenalizeAll_FirstOnly(ls, penalty, counts, order, n) ==
    IF n = 0 THEN ls
    ELSE PenalizeOne(ls, penalty, order[1], counts[order[1]])

RECURSIVE PenalizeAll(_, _, _, _, _)
PenalizeAll(ls, penalty, counts, order, n) ==
    IF n = 0 THEN ls
    ELSE PenalizeOne(PenalizeAll(ls, penalty, counts, order, n - 1),
                     penalty, order[n], counts[order[n]])

\* apply_repetition_penalty dividing (multiplying) by penalty * count, with no
\* shortcut for the neutral penalty
apply_repetition_penalty_Linear(ls, penalty, counts, order) ==
    [i \in 1..Len(ls) |->
        IF (i - 1) \in DOMAIN counts
        THEN IF ls[i] > 0
             THEN IF penalty.num = 0 THEN PosInf
                  ELSE RoundDiv(ls[i] * penalty.den,
                                penalty.num * counts[i - 1])
             ELSE RoundDiv(ls[i] * penalty.num * counts[i - 1], penalty.den)
        ELSE ls[i]]

\* fn apply_repetition_penalty, the keys visited in `order`
apply_repetition_penalty(ls, penalty, counts, order) ==
    IF penalty.num = penalty.den THEN ls
    ELSE PenalizeAll(ls, penalty, counts, order, Len(order))

\* step 2 of sample: temperature scaling
TemperatureScale(ls, temperature) ==
    IF temperature.num > 0
    THEN [i \in 1..Len(ls) |->
             IF ls[i] = PosInf THEN PosInf
             ELSE RoundDiv(ls[i] * temperature.den, temperature.num)]
    ELSE ls

\* steps 2 to 5 of sample: the distribution handed to step 6.  A NaN vector
\* of length 1 passes the filters unchanged (no comparison is made, and
\* `sum > 0.0` is false); for longer ones see SampleOutcome.
Distribution(adj, cfg) ==
    LET p3 == softmax(TemperatureScale(adj, cfg.temperature))
        p4 == IF cfg.top_k > 0 /\ cfg.top_k < Len(p3)
              THEN top_k_filtering(p3, cfg.top_k) ELSE p3
        p5 == IF cfg.top_p < ProbScale
              THEN top_p_filtering(p4, cfg.top_p) ELSE p4
    IN  IF HasNaN(p3) THEN p3 ELSE p5

None == [kind |-> "none", id |-> 0]
Err == [kind |-> "err", id |-> 0]
Panic == [kind |-> "panic", id |-> 0]
Ok(token_id) == [kind |-> "ok", id |-> token_id]

\* step 6 of sample on the distribution of step 5: the Result it returns, or
\* the panic of partial_cmp(..).unwrap() when a sort or max_by has compared
\* NaN (any vector of two or more NaN entries: the first filter that runs,
\* or else argmax, panics; max_by on one element compares nothing).
Select(probs, cfg, r, wasm) ==
    IF HasNaN(probs)
    THEN IF Len(probs) >= 2 THEN Panic ELSE Ok(0)
    ELSE IF cfg.temperature.num = 0
    THEN Ok(argmax(probs))
    ELSE Ok(multinomial_sample(probs, r, wasm))

\* SampleResult without the is_empty check of sample
SampleResult_NoEmptyCheck(ls, probs, cfg, r, wasm) ==
    Select(probs, cfg, r, wasm)

\* fn sample, its Result: the empty check, else step 6 on the distribution
SampleResult(ls, probs, cfg, r, wasm) ==
    IF Len(ls) = 0 THEN Err ELSE Select(probs, cfg, r, wasm)

\* CountUp with or_insert(1) in place of or_insert(0)
CountUp_InsertOne(counts, token_id) ==
    IF token_id \in DOMAIN counts
    THEN [counts EXCEPT ![token_id] = @ + 1]
    ELSE [t \in DOMAIN counts \cup {token_id} |->
             IF t = token_id THEN 2 ELSE counts[t]]

\* step 7 of sample: *self.token_counts.entry(token_id).or_insert(0) += 1
CountUp(counts, token_id) ==
    IF token_id \in DOMAIN counts
    THEN [counts EXCEPT ![token_id] = @ + 1]
    ELSE [t \in DOMAIN counts \cup {token_id} |->
             IF t = token_id THEN 1 ELSE counts[t]]

-----------------------------------------------------------------------------
(* The state machine of one Sampler and its caller *)

\* fn new
NewTokens == <<>>
NewCounts == EmptyMap

\* reset without generated_tokens.clear(), without token_counts.clear()
ResetTokens_Kept(tokens) == tokens
ResetCounts_Kept(counts) == counts

\* fn reset: generated_tokens.clear() and token_counts.clear()
ResetTokens(tokens) == <<>>
ResetCounts(counts) == EmptyMap

TwinOff ==
    /\ twin_mode = "off"
    /\ twin_tokens = NewTokens
    /\ twin_counts = NewCounts
    /\ twin_ret = None

FilterIdle ==
    /\ f_probs = <<>>
    /\ f_param = 0
    /\ f_fn = "none"
    /\ f_out = <<>>

\* no DocumentChunker
ChunkerIdle ==
    /\ strategy = [size |-> 0, overlap |-> 0]
    /\ content_len = 0
    /\ start = 0
    /\ doc_chunks = <<>>
    /\ chunk_pc = "none"

\* no PhiModel
PhiIdle ==
    /\ tokenizer = "None"
    /\ model_loaded = FALSE
    /\ phi_ret = [op |-> "none", kind |-> "none", prompt |-> ""]
    /\ callback_calls = 0

\* no VectorDatabase, no cosine_similarity call, no MemoryCache, no
\* DocumentChunker, no PhiModel
NonLlmIdle ==
    /\ chunks = <<>>
    /\ db_ret = None
    /\ cs_a = <<>>
    /\ cs_b = <<>>
    /\ cs_ret = None
    /\ data = EmptyMap
    /\ max_size = 0
    /\ cache_ret = None
    /\ insertion_order = <<>>
    /\ ChunkerIdle
    /\ PhiIdle

Init ==
    /\ generated_tokens = NewTokens
    /\ token_counts = NewCounts
    /\ logits \in LogitVectors
    /\ config \in GenerationConfig
    /\ ret = None
    /\ adjusted = <<>>
    /\ final_probs = <<>>
    /\ TwinOff
    /\ NonLlmIdle
    /\ FilterIdle

\* the model-execution collaborator hands the caller the score vector of the
\* next generation step (one vector per step: after the previous call)
Produce ==
    /\ ret # None
    /\ \E ls \in LogitVectors : logits' = ls
    /\ ret' = None /\ adjusted' = <<>> /\ final_probs' = <<>>
    /\ twin_ret' = None
    /\ UNCHANGED <<generated_tokens, token_counts, config>>
    /\ UNCHANGED <<twin_mode, twin_tokens, twin_counts, filterVars, nonLlmVars>>

\* the caller changes one field of its GenerationConfig
Configure(field, values) ==
    /\ \E v \in values : config' = [config EXCEPT ![field] = v]
    /\ ret' = None /\ adjusted' = <<>> /\ final_probs' = <<>>
    /\ twin_ret' = None
    /\ UNCHANGED <<generated_tokens, token_counts, logits>>
    /\ UNCHANGED <<twin_mode, twin_tokens, twin_counts, filterVars, nonLlmVars>>

SetTemperature == Configure("temperature", Temperatures)
SetTopK == Configure("top_k", TopKs)
SetTopP == Configure("top_p", TopPs)
SetRepetitionPenalty == Configure("repetition_penalty", Penalties)

\* step 1 of sample: the adjusted logits that apply_repetition_penalty can
\* leave, one for every order in which the HashMap may be iterated
Penalized(ls, cfg, counts) ==
    {apply_repetition_penalty(ls, cfg.repetition_penalty, counts, order) :
        order \in IterOrders(DOMAIN counts)}

\* the random values and builds that can matter to a call: greedy selection
\* draws nothing
DrawsFor(cfg) == IF cfg.temperature.num = 0 THEN {0} ELSE Draws
BuildsFor(cfg) == IF cfg.temperature.num = 0 THEN {TRUE} ELSE BOOLEAN

\* Sampler::sample(&mut self, logits, config)
Sample ==
    /\ twin_mode = "off"
    /\ Len(generated_tokens) < MaxHist
    /\ \E adj \in Penalized(logits, config, token_counts) :
       \E probs \in {Distribution(adj, config)} :
       \E r \in DrawsFor(config), wasm \in BuildsFor(config) :
       \E out \in {SampleResult(logits, probs, config, r, wasm)} :
          /\ ret' = out
          /\ adjusted' = IF out.kind = "err" THEN <<>> ELSE adj
          /\ final_probs' = IF out.kind = "err" THEN <<>> ELSE probs
          /\ IF out.kind = "ok"
             THEN /\ generated_tokens' = Append(generated_tokens, out.id)
                  /\ token_counts' = CountUp(token_counts, out.id)
             ELSE UNCHANGED <<generated_tokens, token_counts>>
    /\ UNCHANGED <<logits, config, twinVars, filterVars, nonLlmVars>>

\* Sampler::reset(&mut self)
Reset ==
    /\ twin_mode = "off"
    /\ generated_tokens' = ResetTokens(generated_tokens)
    /\ token_counts' = ResetCounts(token_counts)
    /\ ret' = None /\ adjusted' = <<>> /\ final_probs' = <<>>
    /\ UNCHANGED <<logits, config, twinVars, filterVars, nonLlmVars>>

Next ==
    \/ Produce
    \/ SetTemperature
    \/ SetTopK
    \/ SetTopP
    \/ SetRepetitionPenalty
    \/ Sample
    \/ Reset

Spec == Init /\ [][Next]_vars

-----------------------------------------------------------------------------
(* Two Sampler instances side by side: the first is reset (fn reset) after  *)
(* it has emitted some tokens, the second is constructed (fn new); from     *)
(* then on both are called with the same logits and config, and             *)
(* multinomial_sample draws the same random value in both.  Each HashMap    *)
(* has its own iteration order.                                             *)

ResetBesideNew ==
    /\ Len(generated_tokens) > 0
    /\ twin_mode' = "on"
    /\ generated_tokens' = ResetTokens(generated_tokens)
    /\ token_counts' = ResetCounts(token_counts)
    /\ twin_tokens' = NewTokens
    /\ twin_counts' = NewCounts
    /\ ret' = None /\ adjusted' = <<>> /\ final_probs' = <<>>
    /\ twin_ret' = None
    /\ UNCHANGED <<logits, config, filterVars, nonLlmVars>>

SampleBoth ==
    /\ twin_mode # "off"
    /\ Len(generated_tokens) < MaxHist
    /\ Len(twin_tokens) < MaxHist
    /\ \E adj \in Penalized(logits, config, token_counts),
          twin_adj \in Penalized(logits, config, twin_counts) :
       \E probs \in {Distribution(adj, config)},
          twin_probs \in {Distribution(twin_adj, config)} :
       \E r \in DrawsFor(config), wasm \in BuildsFor(config) :
       \E out \in {SampleResult(logits, probs, config, r, wasm)},
          twin_out \in {SampleResult(logits, twin_probs, config, r, wasm)} :
          /\ ret' = out
          /\ adjusted' = IF out.kind = "err" THEN <<>> ELSE adj
          /\ final_probs' = IF out.kind = "err" THEN <<>> ELSE probs
          /\ IF out.kind = "ok"
             THEN /\ generated_tokens' = Append(generated_tokens, out.id)
                  /\ token_counts' = CountUp(token_counts, out.id)
             ELSE UNCHANGED <<generated_tokens, token_counts>>
          /\ twin_ret' = twin_out
          /\ IF twin_out.kind = "ok"
             THEN /\ twin_tokens' = Append(twin_tokens, twin_out.id)
                  /\ twin_counts' = CountUp(twin_counts, twin_out.id)
             ELSE UNCHANGED <<twin_tokens, twin_counts>>
    /\ UNCHANGED <<logits, config, twin_mode, filterVars, nonLlmVars>>

NextTwin ==
    \/ Produce
    \/ SetTemperature
    \/ SetTopK
    \/ SetTopP
    \/ SetRepetitionPenalty
    \/ Sample
    \/ Reset
    \/ ResetBesideNew
    \/ SampleBoth

SpecTwin == Init /\ [][NextTwin]_vars

-----------------------------------------------------------------------------
(* The filter functions top_k_filtering and top_p_filtering called on their *)
(* own.  The arguments are the distributions softmax returns for bounded    *)
(* score vectors and the vectors of tenths that sum to exactly 1; step 5 of *)
(* sample calls top_p_filtering on what top_k_filtering returned (Feed).    *)

\* longest vector handed to a filter
MaxProbLen == 4

\* scores -2.0, 0.0, 1.0, 2.0, 3.0, 4.0
FilterLogitVals == {k * LogitScale : k \in {0 - 2, 0, 1, 2, 3, 4}}

SoftmaxOutputs ==
    {softmax(ls) : ls \in UNION {[1..n -> FilterLogitVals] : n \in 1..MaxProbLen}}

Tenths == {k * (ProbScale \div 10) : k \in 0..10}

GridProbs ==
    {v \in UNION {[1..n -> Tenths] : n \in 1..MaxProbLen} :
        SumSeq(v) = ProbScale}

\* thresholds p: 0.5, 0.9, 1.0
FilterPs == {ProbScale \div 2, (9 * ProbScale) \div 10, ProbScale}

InitFilter ==
    /\ generated_tokens = NewTokens
    /\ token_counts = NewCounts
    /\ logits = <<>>
    /\ config = [temperature |-> Rat(1, 1), top_k |-> 0, top_p |-> ProbScale,
                 repetition_penalty |-> Rat(1, 1)]
    /\ ret = None
    /\ adjusted = <<>>
    /\ final_probs = <<>>
    /\ TwinOff
    /\ NonLlmIdle
    /\ f_probs \in SoftmaxOutputs \cup GridProbs
    /\ f_param = 0
    /\ f_fn = "none"
    /\ f_out = <<>>

\* top_k_filtering(&probs, k), any k > 0
CallTopK ==
    /\ f_fn = "none"
    /\ \E k \in 1..(Len(f_probs) + 1) :
          /\ f_param' = k
          /\ f_out' = top_k_filtering(f_probs, k)
    /\ f_fn' = "top_k"
    /\ UNCHANGED <<f_probs, samplerVars, twinVars, nonLlmVars>>

\* top_p_filtering(&probs, p)
CallTopP ==
    /\ f_fn \in {"none", "fed"}
    /\ \E p \in FilterPs :
          /\ f_param' = p
          /\ f_out' = top_p_filtering(f_probs, p)
    /\ f_fn' = "top_p"
    /\ UNCHANGED <<f_probs, samplerVars, twinVars, nonLlmVars>>

\* `let probs = ...top_k_filtering(..)` of step 4 becomes the argument of
\* step 5
Feed ==
    /\ f_fn = "top_k"
    /\ f_probs' = f_out
    /\ f_fn' = "fed"
    /\ f_param' = 0
    /\ f_out' = <<>>
    /\ UNCHANGED <<samplerVars, twinVars, nonLlmVars>>

NextFilter ==
    \/ CallTopK
    \/ CallTopP
    \/ Feed

SpecFilter == InitFilter /\ [][NextFilter]_vars

-----------------------------------------------------------------------------
(* sampler.rs: softmax called on its own, as test_softmax does.  The        *)
(* argument is `logits`, the result `f_out`.                                *)

\* scores -10.0, -8.0, 1.0, 2.0, 3.0; exp(x - max_logit) of the two low ones
\* underflows to 0 beside a high one
SoftmaxLogitVals == {k * LogitScale : k \in {0 - 10, 0 - 8, 1, 2, 3}}

InitSoftmax ==
    /\ generated_tokens = NewTokens
    /\ token_counts = NewCounts
    /\ logits \in UNION {[1..n -> SoftmaxLogitVals] : n \in 1..MaxProbLen}
    /\ config = [temperature |-> Rat(1, 1), top_k |-> 0, top_p |-> ProbScale,
                 repetition_penalty |-> Rat(1, 1)]
    /\ ret = None
    /\ adjusted = <<>>
    /\ final_probs = <<>>
    /\ TwinOff
    /\ NonLlmIdle
    /\ FilterIdle

\* softmax(&logits)
CallSoftmax ==
    /\ f_fn = "none"
    /\ f_out' = softmax(logits)
    /\ f_fn' = "softmax"
    /\ UNCHANGED <<f_probs, f_param, samplerVars, twinVars, nonLlmVars>>

NextSoftmax == CallSoftmax

SpecSoftmax == InitSoftmax /\ [][NextSoftmax]_vars

-----------------------------------------------------------------------------
(* rag/embeddings.rs: cosine_similarity.  Vector components are small       *)
(* integers; magnitudes and the similarity are f32 in the code and fixed    *)
(* point with unit ProbScale here, rounded to nearest after sqrt, after the *)
(* product of the magnitudes and after the division.                        *)

\* longest vector handed to cosine_similarity on its own
MaxDim == 3

\* sqrt(n) for n = 0, 1, 2, ..., rounded to the nearest 1/ProbScale
SqrtTable ==
    << 0, 1000, 1414, 1732, 2000, 2236, 2449, 2646, 2828, 3000, 3162, 3317,
       3464, 3606, 3742, 3873, 4000, 4123, 4243, 4359, 4472, 4583, 4690,
       4796, 4899, 5000 >>

Sqrt(n) == SqrtTable[n + 1]

RECURSIVE DotTo(_, _, _)
DotTo(a, b, n) == IF n = 0 THEN 0 ELSE DotTo(a, b, n - 1) + a[n] * b[n]

\* the outcome of a cosine_similarity call: the f32 returned, or the panic of
\* assert_eq!
Score(x) == [kind |-> "ok", score |-> x]
AssertFailed == [kind |-> "panic", score |-> 0]

\* cosine_similarity without the zero-magnitude return: 0.0 / 0.0 is NaN
cosine_similarity_NoZeroCheck(a, b) ==
    IF Len(a) # Len(b) THEN AssertFailed
    ELSE LET dot_product == DotTo(a, b, Len(a))
             magnitude_a == Sqrt(DotTo(a, a, Len(a)))
             magnitude_b == Sqrt(DotTo(b, b, Len(b)))
             product == RoundDiv(magnitude_a * magnitude_b, ProbScale)
         IN  IF product = 0 THEN Score(NaN)
             ELSE Score(RoundDiv(dot_product * ProbScale * ProbScale, product))

\* fn cosine_similarity
cosine_similarity(a, b) ==
    IF Len(a) # Len(b) THEN AssertFailed
    ELSE LET dot_product == DotTo(a, b, Len(a))
             magnitude_a == Sqrt(DotTo(a, a, Len(a)))
             magnitude_b == Sqrt(DotTo(b, b, Len(b)))
         IN  IF magnitude_a = 0 \/ magnitude_b = 0 THEN Score(0)
             ELSE Score(RoundDiv(dot_product * ProbScale * ProbScale,
                                 RoundDiv(magnitude_a * magnitude_b, ProbScale)))

\* components -1.0, 0.0, 1.0, 2.0
Components == {0 - 1, 0, 1, 2}

Vectors == UNION {[1..n -> Components] : n \in 1..MaxDim}

SamplerIdle ==
    /\ generated_tokens = NewTokens
    /\ token_counts = NewCounts
    /\ logits = <<>>
    /\ config = [temperature |-> Rat(1, 1), top_k |-> 0, top_p |-> ProbScale,
                 repetition_penalty |-> Rat(1, 1)]
    /\ ret = None
    /\ adjusted = <<>>
    /\ final_probs = <<>>
    /\ TwinOff
    /\ FilterIdle

InitCosine ==
    /\ SamplerIdle
    /\ chunks = <<>>
    /\ db_ret = None
    /\ cs_a \in Vectors
    /\ cs_b \in Vectors
    /\ cs_ret = None
    /\ data = EmptyMap
    /\ max_size = 0
    /\ cache_ret = None
    /\ insertion_order = <<>>
    /\ ChunkerIdle
    /\ PhiIdle

\* cosine_similarity(&a, &b)
CallCosine ==
    /\ cs_ret = None
    /\ cs_ret' = cosine_similarity(cs_a, cs_b)
    /\ UNCHANGED <<cs_a, cs_b, dbVars, cacheVars, llmVars,
                   chunkerVars, phiVars>>

NextCosine == CallCosine

SpecCosine == InitCosine /\ [][NextCosine]_vars

-----------------------------------------------------------------------------
(* rag/vector_db.rs: VectorDatabase.  A Chunk keeps its id, the            *)
(* document_id of its metadata and its Option<Vec<f32>> embedding           *)
(* (has_embedding is FALSE for None).                                       *)

\* most chunks stored
MaxChunks == 3

\* every document_id, in the order of String's Ord
DocumentIdOrder == <<"a", "b">>

DocumentIds == {DocumentIdOrder[i] : i \in 1..Len(DocumentIdOrder)}

SomeEmbedding(id, document_id, embedding) ==
    [id |-> id, document_id |-> document_id,
     has_embedding |-> TRUE, embedding |-> embedding]

NoEmbedding(id, document_id) ==
    [id |-> id, document_id |-> document_id,
     has_embedding |-> FALSE, embedding |-> <<>>]

\* the chunks handed to add_chunk: of either document; two with the same
\* embedding, one with the zero vector and one with no embedding
Chunk ==
    {SomeEmbedding("1", "a", <<1, 0, 0>>),
     SomeEmbedding("1", "b", <<1, 0, 0>>),
     SomeEmbedding("2", "a", <<0, 1, 0>>),
     SomeEmbedding("3", "b", <<0, 0, 0>>),
     NoEmbedding("4", "a")}

\* query embeddings: two of the dimension of the stored ones, the zero vector
\* and one of another dimension
Queries == {<<1, 0, 0>>, <<1, 1, 0>>, <<0, 0, 0>>, <<1, 0>>}

TopKValues == {0, 1, 2, MaxChunks + 1}

HasEmbedding(chunk) == chunk.has_embedding

SearchResult(chunk, score) == [chunk |-> chunk, score |-> score]

\* the outcomes of VectorDatabase calls
Called(op) == [op |-> op, kind |-> "ok"]
SearchOk(results, query_embedding, top_k) ==
    [op |-> "search", kind |-> "ok", results |-> results,
     query |-> query_embedding, top_k |-> top_k]
SearchPanic(query_embedding, top_k) ==
    [op |-> "search", kind |-> "panic", results |-> <<>>,
     query |-> query_embedding, top_k |-> top_k]
Deleted(document_id, deleted) ==
    [op |-> "delete_by_document", kind |-> "ok", deleted |-> deleted,
     document_id |-> document_id]

\* the f32 scores of the candidates, or NaN where cosine_similarity panicked
Scores(candidates, query_embedding) ==
    [i \in 1..Len(candidates) |->
        LET outcome == cosine_similarity(query_embedding,
                                         candidates[i].embedding)
        IN  IF outcome.kind = "ok" THEN outcome.score ELSE NaN]

\* sort_by with the comparison the other way round: ascending score
SortByScore_Ascending(candidates, scores) ==
    LET order == SortedDesc([i \in 1..Len(scores) |-> 0 - scores[i]])
    IN  [j \in 1..Len(candidates) |->
            SearchResult(candidates[order[j]], scores[order[j]])]

\* results.sort_by(|a, b| b.score.partial_cmp(&a.score).unwrap()): descending
\* score, stable
SortByScore(candidates, scores) ==
    LET order == SortedDesc(scores)
    IN  [j \in 1..Len(candidates) |->
            SearchResult(candidates[order[j]], scores[order[j]])]

\* search truncating to one result too many
search_TruncateMore(cs, query_embedding, top_k) ==
    LET candidates == SelectSeq(cs, HasEmbedding)
        n == Len(candidates)
        scores == Scores(candidates, query_embedding)
    IN  IF \E i \in 1..n :
              Len(candidates[i].embedding) # Len(query_embedding)
        THEN SearchPanic(query_embedding, top_k)
        ELSE SearchOk(SubSeq(SortByScore(candidates, scores), 1,
                             Min2(top_k + 1, n)),
                      query_embedding, top_k)

\* fn search: score every chunk that has an embedding (cosine_similarity
\* panics on a dimension mismatch), sort the results (partial_cmp(..).unwrap()
\* panics on a NaN score once two results are compared), truncate(top_k)
search(cs, query_embedding, top_k) ==
    LET candidates == SelectSeq(cs, HasEmbedding)
        n == Len(candidates)
        scores == Scores(candidates, query_embedding)
    IN  IF \E i \in 1..n :
              cosine_similarity(query_embedding,
                                candidates[i].embedding).kind = "panic"
        THEN SearchPanic(query_embedding, top_k)
        ELSE IF n >= 2 /\ HasNaN(scores)
        THEN SearchPanic(query_embedding, top_k)
        ELSE SearchOk(SubSeq(SortByScore(candidates, scores), 1,
                             Min2(top_k, n)),
                      query_embedding, top_k)

\* retain keeping the chunks of the document instead of the others
Retain_Matching(cs, document_id) ==
    LET Matches(chunk) == chunk.document_id = document_id
    IN  SelectSeq(cs, Matches)

\* self.chunks.retain(|chunk| chunk.metadata.document_id != document_id)
Retain(cs, document_id) ==
    LET Others(chunk) == chunk.document_id # document_id
    IN  SelectSeq(cs, Others)

\* fn count
count(cs) == Len(cs)

\* fn get_document_ids: the document ids, sorted and deduplicated
get_document_ids(cs) ==
    LET Stored(d) == \E i \in 1..Len(cs) : cs[i].document_id = d
    IN  SelectSeq(DocumentIdOrder, Stored)

\* fn count_by_document
count_by_document(cs, document_id) ==
    Cardinality({i \in 1..Len(cs) : cs[i].document_id = document_id})

\* clear that leaves the chunks without an embedding
ClearChunks_KeepUnembedded(cs) ==
    LET Unembedded(chunk) == ~chunk.has_embedding
    IN  SelectSeq(cs, Unembedded)

\* self.chunks.clear()
ClearChunks(cs) == <<>>

\* VectorDatabase::new()
InitDb ==
    /\ SamplerIdle
    /\ chunks = <<>>
    /\ db_ret = Called("new")
    /\ cs_a = <<>>
    /\ cs_b = <<>>
    /\ cs_ret = None
    /\ data = EmptyMap
    /\ max_size = 0
    /\ cache_ret = None
    /\ insertion_order = <<>>
    /\ ChunkerIdle
    /\ PhiIdle

\* add_chunk that skips a chunk whose id is already stored
add_chunk_SkipKnownId(cs, chunk) ==
    IF \E i \in 1..Len(cs) : cs[i].id = chunk.id THEN cs ELSE Append(cs, chunk)

\* self.chunks.push(chunk), with or without an embedding
add_chunk(cs, chunk) == Append(cs, chunk)

\* add_chunk(chunk)
AddChunk ==
    /\ Len(chunks) < MaxChunks
    /\ \E chunk \in Chunk : chunks' = add_chunk(chunks, chunk)
    /\ db_ret' = Called("add_chunk")
    /\ UNCHANGED <<cosineVars, cacheVars, llmVars,
                   chunkerVars, phiVars>>

\* add_chunks(vec![first, second]): add_chunk for each in turn
AddChunks ==
    /\ Len(chunks) + 2 <= MaxChunks
    /\ \E first \in Chunk, second \in Chunk :
          chunks' = add_chunk(add_chunk(chunks, first), second)
    /\ db_ret' = Called("add_chunks")
    /\ UNCHANGED <<cosineVars, cacheVars, llmVars,
                   chunkerVars, phiVars>>

\* search(&query_embedding, top_k)
Search ==
    /\ \E query_embedding \in Queries, top_k \in TopKValues :
          db_ret' = search(chunks, query_embedding, top_k)
    /\ UNCHANGED <<chunks, cosineVars, cacheVars, llmVars,
                   chunkerVars, phiVars>>

\* delete_by_document(document_id)
DeleteByDocument ==
    /\ \E document_id \in DocumentIds :
          /\ chunks' = Retain(chunks, document_id)
          /\ db_ret' = Deleted(document_id, Len(chunks) - Len(chunks'))
    /\ UNCHANGED <<cosineVars, cacheVars, llmVars,
                   chunkerVars, phiVars>>

\* clear()
Clear ==
    /\ chunks' = ClearChunks(chunks)
    /\ db_ret' = Called("clear")
    /\ UNCHANGED <<cosineVars, cacheVars, llmVars,
                   chunkerVars, phiVars>>

NextDb ==
    \/ AddChunk
    \/ AddChunks
    \/ Search
    \/ DeleteByDocument
    \/ Clear

SpecDb == InitDb /\ [][NextDb]_vars

-----------------------------------------------------------------------------
(* storage/cache.rs: MemoryCache<K, V>                                      *)

\* largest max_size a cache is created with
MaxCacheSize == 2

CacheKeys == {"key1", "key2", "key3"}

CacheValues == {"value1", "value2"}

\* the outcome of a MemoryCache call: for get and remove the Option returned
CacheCalled(op) == [op |-> op, some |-> FALSE, value |-> ""]
CacheOption(op, d, key) ==
    IF key \in DOMAIN d
    THEN [op |-> op, some |-> TRUE, value |-> d[key]]
    ELSE [op |-> op, some |-> FALSE, value |-> ""]

\* HashMap::insert
Insert(d, key, value) ==
    [k \in DOMAIN d \cup {key} |-> IF k = key THEN value ELSE d[k]]

\* HashMap::remove
Without(d, key) == [k \in DOMAIN d \ {key} |-> d[k]]

\* fn size
size(d) == Cardinality(DOMAIN d)

\* the maps set(key, value) can leave: at capacity and with a new key it
\* first removes self.data.keys().next(), any key of the HashMap (none when
\* the map is empty), then it inserts
set(d, max, key, value) ==
    IF size(d) >= max /\ key \notin DOMAIN d
    THEN IF DOMAIN d = {}
         THEN {Insert(d, key, value)}
         ELSE {Insert(Without(d, first_key), key, value) : first_key \in DOMAIN d}
    ELSE {Insert(d, key, value)}

\* MemoryCache::new(max_size)
InitCache ==
    /\ SamplerIdle
    /\ chunks = <<>>
    /\ db_ret = None
    /\ cs_a = <<>>
    /\ cs_b = <<>>
    /\ cs_ret = None
    /\ data = EmptyMap
    /\ max_size \in 0..MaxCacheSize
    /\ cache_ret = CacheCalled("new")
    /\ insertion_order = <<>>
    /\ ChunkerIdle
    /\ PhiIdle

\* the keys of order that d still holds, then key if it is new to order
Inserted(order, d, key) ==
    LET kept == SelectSeq(order, LAMBDA k : k \in DOMAIN d)
    IN  IF \E i \in 1..Len(kept) : kept[i] = key
        THEN kept ELSE Append(kept, key)

\* set(key, value)
CacheSet ==
    /\ \E key \in CacheKeys, value \in CacheValues :
          /\ data' \in set(data, max_size, key, value)
          /\ insertion_order' = Inserted(insertion_order, data', key)
    /\ cache_ret' = CacheCalled("set")
    /\ UNCHANGED <<max_size, dbVars, cosineVars, llmVars,
                   chunkerVars, phiVars>>

\* get(&key)
CacheGet ==
    /\ \E key \in CacheKeys : cache_ret' = CacheOption("get", data, key)
    /\ UNCHANGED <<data, max_size, insertion_order, dbVars, cosineVars, llmVars,
                   chunkerVars, phiVars>>

\* remove(&key)
CacheRemove ==
    /\ \E key \in CacheKeys :
          /\ cache_ret' = CacheOption("remove", data, key)
          /\ data' = Without(data, key)
          /\ insertion_order' = SelectSeq(insertion_order, LAMBDA k : k # key)
    /\ UNCHANGED <<max_size, dbVars, cosineVars, llmVars,
                   chunkerVars, phiVars>>

\* clear()
CacheClear ==
    /\ data' = EmptyMap
    /\ insertion_order' = <<>>
    /\ cache_ret' = CacheCalled("clear")
    /\ UNCHANGED <<max_size, dbVars, cosineVars, llmVars,
                   chunkerVars, phiVars>>

NextCache ==
    \/ CacheSet
    \/ CacheGet
    \/ CacheRemove
    \/ CacheClear

SpecCache == InitCache /\ [][NextCache]_vars

-----------------------------------------------------------------------------
(* sampler.rs: multinomial_sample called on its own.  The argument is       *)
(* `f_probs`, the random value `f_param`, the result `ret`; `f_fn` tells    *)
(* which of the two cfg blocks was compiled in.                              *)

\* random values on the ProbScale grid.  The largest f32 below 1.0 that
\* either generator can return, 1 - 2^-24, lies above every cumulative sum
\* that falls short of 1.0; on the grid, where the sums are whole numbers,
\* it compares as ProbScale does.
DrawsToOne == Draws \cup {ProbScale}

\* multinomial_sample(&probs)
CallMultinomial ==
    /\ f_fn = "none"
    /\ \E r \in DrawsToOne, wasm \in BOOLEAN :
          /\ f_param' = r
          /\ f_fn' = IF wasm THEN "multinomial_sample wasm32"
                     ELSE "multinomial_sample not wasm32"
          /\ ret' = Ok(multinomial_sample(f_probs, r, wasm))
    /\ UNCHANGED <<f_probs, f_out, generated_tokens, token_counts, logits,
                   config, adjusted, final_probs, twinVars, nonLlmVars>>

NextDraw == CallMultinomial

SpecDraw == InitFilter /\ [][NextDraw]_vars

-----------------------------------------------------------------------------
(* rag/chunking.rs: DocumentChunker with the FixedSize strategy.  Only the  *)
(* length of the content matters to chunk_fixed_size (the content is taken  *)
(* to be ASCII, so that every byte index is a char boundary); a Chunk keeps *)
(* the chunk_index, start_char and end_char of its metadata.                *)

\* longest document content, in bytes
MaxContentLen == 4
\* largest size and overlap of a strategy
MaxChunkSize == 3

\* `end - overlap` on usize wraps when overflow checks are off (release
\* profile) and panics when they are on (debug profile).  usize has 32 bits
\* on wasm32 and 64 elsewhere; the model wraps modulo 2^30, the widest that
\* its own integers allow: a wrapped start lies beyond the end of every
\* content either way.
UsizeModulus == 2 ^ 30

FixedSize(sz, overlap) == [size |-> sz, overlap |-> overlap]

DocChunk(chunk_index, start_char, end_char) ==
    [chunk_index |-> chunk_index, start_char |-> start_char,
     end_char |-> end_char]

\* no other component exists beside a DocumentChunker or a PhiModel
RagIdle ==
    /\ chunks = <<>>
    /\ db_ret = None
    /\ cs_a = <<>>
    /\ cs_b = <<>>
    /\ cs_ret = None
    /\ data = EmptyMap
    /\ max_size = 0
    /\ cache_ret = None
    /\ insertion_order = <<>>

\* DocumentChunker::new(FixedSize { size, overlap }) and a document
InitChunker ==
    /\ SamplerIdle
    /\ RagIdle
    /\ PhiIdle
    /\ strategy \in {FixedSize(sz, overlap) :
                        sz \in 0..MaxChunkSize, overlap \in 0..MaxChunkSize}
    /\ content_len \in 0..MaxContentLen
    /\ start = 0
    /\ doc_chunks = <<>>
    /\ chunk_pc = "new"

\* chunk(&document) up to the head of the while loop
ChunkCall ==
    /\ chunk_pc = "new"
    /\ start' = 0
    /\ doc_chunks' = <<>>
    /\ chunk_pc' = "loop"
    /\ UNCHANGED <<strategy, content_len, dbVars, cosineVars, cacheVars,
                   phiVars, llmVars>>

\* one evaluation of the loop condition and, if it holds, of the loop body.
\* The model stops following a call once it has pushed more chunks than the
\* content has bytes.
Iterate ==
    /\ chunk_pc = "loop"
    /\ Len(doc_chunks) <= MaxContentLen
    /\ IF start < content_len
       THEN \E end \in {Min2(start + strategy.size, content_len)} :
            \E overflow_checks \in BOOLEAN :
               /\ doc_chunks' =
                     Append(doc_chunks, DocChunk(Len(doc_chunks), start, end))
               /\ IF end >= content_len
                  THEN /\ chunk_pc' = "returned"
                       /\ start' = start
                  ELSE IF end < strategy.overlap /\ overflow_checks
                  THEN /\ chunk_pc' = "panicked"
                       /\ start' = start
                  ELSE /\ chunk_pc' = "loop"
                       /\ start' = (end - strategy.overlap) % UsizeModulus
       ELSE /\ chunk_pc' = "returned"
            /\ UNCHANGED <<start, doc_chunks>>
    /\ UNCHANGED <<strategy, content_len, dbVars, cosineVars, cacheVars,
                   phiVars, llmVars>>

NextChunker ==
    \/ ChunkCall
    \/ Iterate

SpecChunker == InitChunker /\ [][NextChunker]_vars

-----------------------------------------------------------------------------
(* llm/phi_model.rs: PhiModel.  load takes &mut self, so no other call of   *)
(* the model runs between its steps.                                         *)

\* prompts, one for each branch of mock_generate
Prompts == {"hello", "what are you", "code", ""}

\* the number of whitespace-separated words of mock_generate's response
\* (the last one for the default temperature and max_tokens)
ResponseWords(prompt) ==
    CASE prompt = "hello" -> 15
      [] prompt = "what are you" -> 45
      [] prompt = "code" -> 34
      [] OTHER -> 46

\* where load returns: at the `?` of tokenizer.load(), at the `?` of
\* fetch_model_bytes, or at its end
LoadOutcomes == {"tokenizer failed", "fetch failed", "ok"}

\* the outcome of a PhiModel call; for generate and generate_stream with the
\* prompt, which decides the response
PhiCalled(op, kind) == [op |-> op, kind |-> kind, prompt |-> ""]
Generated(op, kind, prompt) == [op |-> op, kind |-> kind, prompt |-> prompt]

\* is_loaded that looks at the tokenizer alone
is_loaded_TokenizerOnly(tok, loaded) == tok = "Some"

\* fn is_loaded
is_loaded(tok, loaded) == loaded /\ tok = "Some"

\* PhiModel::new(config)
InitPhi ==
    /\ SamplerIdle
    /\ RagIdle
    /\ ChunkerIdle
    /\ tokenizer = "None"
    /\ model_loaded = FALSE
    /\ phi_ret = PhiCalled("new", "ok")
    /\ callback_calls = 0

\* load()
Load ==
    /\ \E outcome \in LoadOutcomes :
          /\ tokenizer' = IF outcome = "tokenizer failed"
                          THEN tokenizer ELSE "Some"
          /\ model_loaded' = IF outcome = "ok" THEN TRUE ELSE model_loaded
          /\ phi_ret' = PhiCalled("load", outcome)
    /\ callback_calls' = 0
    /\ UNCHANGED <<dbVars, cosineVars, cacheVars, chunkerVars, llmVars>>

\* generate(prompt, config); tokenizer.encode(prompt) may fail
Generate ==
    /\ \E prompt \in Prompts, encoded \in BOOLEAN :
          phi_ret' =
             IF is_loaded(tokenizer, model_loaded) /\ tokenizer = "Some"
                /\ encoded
             THEN Generated("generate", "ok", prompt)
             ELSE Generated("generate", "err", prompt)
    /\ callback_calls' = 0
    /\ UNCHANGED <<tokenizer, model_loaded, dbVars, cosineVars, cacheVars,
                   chunkerVars, llmVars>>

\* generate_stream(prompt, config, callback); the callback may return Err at
\* any of its invocations (failing = 0: at none)
GenerateStream ==
    /\ \E prompt \in Prompts, encoded \in BOOLEAN :
       \E failing \in 0..ResponseWords(prompt) :
          IF is_loaded(tokenizer, model_loaded) /\ tokenizer = "Some"
             /\ encoded
          THEN IF failing = 0
               THEN /\ callback_calls' = ResponseWords(prompt)
                    /\ phi_ret' = Generated("generate_stream", "ok", prompt)
               ELSE /\ callback_calls' = failing
                    /\ phi_ret' = Generated("generate_stream", "err", prompt)
          ELSE /\ callback_calls' = 0
               /\ phi_ret' = Generated("generate_stream", "err", prompt)
    /\ UNCHANGED <<tokenizer, model_loaded, dbVars, cosineVars, cacheVars,
                   chunkerVars, llmVars>>

NextPhi ==
    \/ Load
    \/ Generate
    \/ GenerateStream

SpecPhi == InitPhi /\ [][NextPhi]_vars

-----------------------------------------------------------------------------
(* Properties *)

Neutral(penalty) == penalty.num = penalty.den

CountOf(counts, t) == IF t \in DOMAIN counts THEN counts[t] ELSE 0

Occurrences(tokens, t) == Cardinality({i \in 1..Len(tokens) : tokens[i] = t})

NonZeroIdx(v) == {i \in 1..Len(v) : v[i] # 0}

RECURSIVE SumOver(_, _)
SumOver(v, S) ==
    IF S = {} THEN 0
    ELSE LET i == CHOOSE x \in S : TRUE IN v[i] + SumOver(v, S \ {i})

\* position i comes before position j in the descending order of v
\* (higher value first, equal values in index order)
Precedes(v, i, j) == v[i] > v[j] \/ (v[i] = v[j] /\ i < j)

\* the 0-based index of the first maximum of v
FirstMaxIndex(v) ==
    (CHOOSE i \in 1..Len(v) :
        /\ \A j \in 1..Len(v) : v[j] <= v[i]
        /\ \A j \in 1..(i - 1) : v[j] < v[i]) - 1

\* C1: sample called with a zero-length score vector returns an error and
\* leaves generated_tokens and token_counts exactly as they were, whatever
\* the history and the GenerationConfig.
C1_EmptyInputFails ==
    [][(ret'.kind # "none" /\ Len(logits) = 0)
         => /\ ret'.kind = "err"
            /\ generated_tokens' = generated_tokens
            /\ token_counts' = token_counts]_vars

C1_Witness ==
    /\ ret.kind = "err"
    /\ Len(logits) = 0
    /\ Len(generated_tokens) = 2
    /\ ~Neutral(config.repetition_penalty)
    /\ config.temperature.num > 0

\* C2: every successful sample call appends exactly the returned identifier
\* to generated_tokens (earlier elements unchanged) and raises that
\* identifier's count by one, every other count staying as it was.
C2_HistoryUpdate ==
    [][ret'.kind = "ok"
         => /\ generated_tokens' = Append(generated_tokens, ret'.id)
            /\ DOMAIN token_counts' = DOMAIN token_counts \cup {ret'.id}
            /\ \A t \in DOMAIN token_counts' :
                 token_counts'[t] =
                   CountOf(token_counts, t) + (IF t = ret'.id THEN 1 ELSE 0)]_vars

C2_Witness ==
    /\ ret.kind = "ok"
    /\ config.temperature.num > 0
    /\ Len(generated_tokens) = 3
    /\ generated_tokens[3] = ret.id
    /\ token_counts[ret.id] = 2
    /\ Cardinality(DOMAIN token_counts) = 2

\* C3: in every reachable state the count of every identifier equals the
\* number of times it occurs in generated_tokens, and identifiers that do
\* not occur have no count.
C3_CountsInSync ==
    /\ DOMAIN token_counts =
         {generated_tokens[i] : i \in 1..Len(generated_tokens)}
    /\ \A t \in DOMAIN token_counts :
         token_counts[t] = Occurrences(generated_tokens, t)

C3_Witness ==
    /\ Len(generated_tokens) = 3
    /\ \E t, u \in DOMAIN token_counts :
         token_counts[t] = 2 /\ token_counts[u] = 1
    /\ ret.kind = "ok"

\* C4 (as claimed): with temperature == 0 sample returns the index of the
\* maximum post-repetition-penalty score, the first such index when several
\* share the maximum.
C4_GreedyFirstMax ==
    (ret.kind = "ok" /\ config.temperature.num = 0)
        => ret.id = FirstMaxIndex(adjusted)

\* C5: two Sampler instances with identical history, given the same score
\* vector and the same policy with temperature == 0, return the same
\* identifier, whatever order each HashMap is iterated in.
C5_GreedyIsAFunction ==
    [][(/\ twin_mode = "on"
        /\ generated_tokens = twin_tokens
        /\ token_counts = twin_counts
        /\ config.temperature.num = 0
        /\ ret'.kind # "none")
         => twin_ret' = ret']_vars

C5_Witness ==
    /\ twin_mode = "on"
    /\ config.temperature.num = 0
    /\ ~Neutral(config.repetition_penalty)
    /\ ret.kind = "ok"
    /\ twin_ret = ret
    /\ Len(logits) = 2
    /\ Len(generated_tokens) = 3
    /\ generated_tokens[1] # generated_tokens[2]
    /\ twin_tokens = generated_tokens

\* C6: after reset() a Sampler with any prior history behaves as a newly
\* constructed one: history and counts are those of the new one, and every
\* later sample call with the same scores, policy and random draw returns
\* the same result and leaves the same history in both.
C6_ResetIsNew ==
    twin_mode = "on"
        => /\ generated_tokens = twin_tokens
           /\ token_counts = twin_counts
           /\ ret = twin_ret

C6_Witness ==
    /\ twin_mode = "on"
    /\ Len(generated_tokens) = 3
    /\ twin_tokens = generated_tokens
    /\ ret.kind = "ok"
    /\ config.temperature.num > 0
    /\ ~Neutral(config.repetition_penalty)
    /\ adjusted # logits

\* C7: with repetition_penalty == 1.0 the repetition-penalty stage leaves
\* every entry of the score vector unchanged, for any history.
C7_NeutralPenaltyIsIdentity ==
    (ret.kind \in {"ok", "panic"} /\ Neutral(config.repetition_penalty))
        => adjusted = logits

C7_Witness ==
    /\ ret.kind = "ok"
    /\ Neutral(config.repetition_penalty)
    /\ Len(generated_tokens) = 3
    /\ generated_tokens[1] = generated_tokens[2]
    /\ generated_tokens[1] < Len(logits)
    /\ logits[generated_tokens[1] + 1] > 0
    /\ adjusted = logits

\* C8 (amended): for 0 < k <= len(probs), top_k_filtering(probs, k) keeps
\* nonzero exactly min(k, number of nonzero entries of probs) entries (k of
\* them when probs has at least k nonzero entries); they are the
\* highest-probability indices of the input, equal probabilities going to
\* the lower index; every other entry is 0; and a kept entry that has at
\* least the probability of another kept entry in the input has at least
\* its probability in the output.
C8_TopKKeepsHighest ==
    (f_fn = "top_k" /\ f_param <= Len(f_probs))
        => LET n == Len(f_probs)
               kept == NonZeroIdx(f_out)
           IN  /\ Len(f_out) = n
               /\ Cardinality(kept) =
                    Min2(f_param, Cardinality(NonZeroIdx(f_probs)))
               /\ \A i \in kept : f_probs[i] > 0
               /\ \A i \in kept, j \in NonZeroIdx(f_probs) \ kept :
                    Precedes(f_probs, i, j)
               /\ \A i, j \in kept :
                    f_probs[i] >= f_probs[j] => f_out[i] >= f_out[j]

\* C8 (as claimed): exactly k nonzero entries for any probability vector.
C8_ExactlyKNonZero ==
    (f_fn = "top_k" /\ f_param <= Len(f_probs))
        => Cardinality(NonZeroIdx(f_out)) = f_param

C8_Witness ==
    /\ f_fn = "top_k"
    /\ f_probs = softmax(<<1 * LogitScale, 2 * LogitScale,
                           3 * LogitScale, 4 * LogitScale>>)
    /\ f_param = 2
    /\ NonZeroIdx(f_out) = {3, 4}
    /\ f_out[4] > f_out[3]

\* the kept set of top_p_filtering is the smallest prefix of the descending
\* order whose probabilities sum to at least p
SmallestPrefix(v, kept, p) ==
    /\ SumOver(v, kept) >= p
    /\ \A i \in kept : SumOver(v, kept) - v[i] < p
    /\ \A i \in kept : v[i] > 0
    /\ \A i \in kept, j \in (1..Len(v)) \ kept : Precedes(v, i, j)

\* The part of C9 that top_p_filtering satisfies: it keeps nonzero exactly
\* the smallest prefix of the indices sorted by descending probability whose
\* cumulative probability is >= p (the crossing element included), or every
\* nonzero entry when the probabilities sum to less than p; it zeroes every
\* other index and divides the kept entries by their sum; for p = 1.0 the
\* input comes back unchanged when its entries sum to exactly 1.
C9_TopPKeepsSmallestPrefix ==
    f_fn = "top_p"
        => LET kept == NonZeroIdx(f_out)
           IN  /\ Len(f_out) = Len(f_probs)
               /\ IF SumSeq(f_probs) >= f_param
                  THEN SmallestPrefix(f_probs, kept, f_param)
                  ELSE kept = NonZeroIdx(f_probs)
               /\ \A i \in kept :
                    f_out[i] = RoundDiv(f_probs[i] * ProbScale,
                                        SumOver(f_probs, kept))
               /\ (f_param = ProbScale /\ SumSeq(f_probs) = ProbScale)
                    => f_out = f_probs

\* C9 (as claimed): top_p_filtering(probs, p) keeps exactly the smallest
\* prefix of the descending order whose cumulative probability is >= p, and
\* with p = 1.0 it returns its input unchanged.
C9_NoOpAtOne ==
    f_fn = "top_p"
        => /\ SumSeq(f_probs) >= f_param
                => SmallestPrefix(f_probs, NonZeroIdx(f_out), f_param)
           /\ f_param = ProbScale => f_out = f_probs

\* C10: a successful sample call returns a valid index of the score vector.
C10_ValidIndex ==
    ret.kind = "ok" => (0 <= ret.id /\ ret.id < Len(logits))

C10_Witness ==
    /\ ret.kind = "ok"
    /\ config.temperature.num > 0
    /\ Len(logits) = MaxVocab
    /\ ret.id = Len(logits) - 1
    /\ Len(generated_tokens) = 2

\* the sum of a probability vector is 1 up to the rounding of its entries
\* (half a unit of the last place each)
SumsToOne(v) ==
    /\ 2 * (SumSeq(v) - ProbScale) <= Len(v)
    /\ 2 * (ProbScale - SumSeq(v)) <= Len(v)

\* what softmax guarantees apart from the order of its entries
IsDistribution(ls, out) ==
    /\ Len(out) = Len(ls)
    /\ \A i \in 1..Len(out) : out[i] >= 0
    /\ SumsToOne(out)

IsZero(v) == \A i \in 1..Len(v) : v[i] = 0

\* C18 (as claimed): cosine_similarity is symmetric, its result lies in
\* [-1, 1] for nonzero vectors, and it is 1.0 for a == b, a nonzero.
C18_CosineSymmetricBoundedOne ==
    (cs_ret.kind = "ok" /\ Len(cs_a) = Len(cs_b))
        => /\ cosine_similarity(cs_b, cs_a) = cs_ret
           /\ (~IsZero(cs_a) /\ ~IsZero(cs_b))
                => (0 - ProbScale <= cs_ret.score /\ cs_ret.score <= ProbScale)
           /\ (cs_a = cs_b /\ ~IsZero(cs_a)) => cs_ret.score = ProbScale

\* the positions of the stored chunks that have an embedding
Embedded(cs) == {i \in 1..Len(cs) : cs[i].has_embedding}

\* the score search gives the stored chunk at position i
ScoreAt(cs, query_embedding, i) ==
    cosine_similarity(query_embedding, cs[i].embedding).score

\* results are the chunks at positions pos[1], pos[2], ... of cs, best first:
\* scores do not increase, equal scores come in insertion order, and every
\* embedded chunk left out ranks after every chunk taken
RankedBy(results, cs, query_embedding, pos) ==
    /\ \A i \in 1..Len(results) :
         /\ pos[i] \in Embedded(cs)
         /\ results[i].chunk = cs[pos[i]]
         /\ results[i].score = ScoreAt(cs, query_embedding, pos[i])
    /\ \A i, j \in 1..Len(results) :
         i < j => \/ results[i].score > results[j].score
                  \/ (results[i].score = results[j].score /\ pos[i] < pos[j])
    /\ \A m \in Embedded(cs) \ {pos[i] : i \in 1..Len(results)} :
         \A i \in 1..Len(results) :
            \/ results[i].score > ScoreAt(cs, query_embedding, m)
            \/ (results[i].score = ScoreAt(cs, query_embedding, m)
                /\ pos[i] < m)

\* C12: a search that returns gives the stored chunks ordered by
\* non-increasing cosine similarity to the query, chunks of equal score in
\* their insertion order, so that the first result is a stored chunk of
\* maximal similarity.
C12_SearchRanksBySimilarity ==
    (db_ret.op = "search" /\ db_ret.kind = "ok")
        => /\ \E pos \in [1..Len(db_ret.results) -> 1..Len(chunks)] :
                RankedBy(db_ret.results, chunks, db_ret.query, pos)
           /\ Len(db_ret.results) >= 1
                => \A m \in Embedded(chunks) :
                     ScoreAt(chunks, db_ret.query, m) <= db_ret.results[1].score

C12_Witness ==
    /\ chunks = <<SomeEmbedding("1", "a", <<1, 0, 0>>),
                  SomeEmbedding("2", "a", <<0, 1, 0>>)>>
    /\ db_ret = SearchOk(<<SearchResult(chunks[1], ProbScale)>>,
                         <<1, 0, 0>>, 1)

\* C13: a search that returns has exactly min(k, number of stored chunks
\* with an embedding) results: none for k = 0, none on an empty database
\* (where every search returns), all scored candidates for a large k, and
\* never a chunk without an embedding.
C13_SearchCount ==
    db_ret.op = "search"
        => /\ db_ret.kind = "ok"
                => /\ Len(db_ret.results) =
                        Min2(db_ret.top_k, Cardinality(Embedded(chunks)))
                   /\ \A i \in 1..Len(db_ret.results) :
                        db_ret.results[i].chunk.has_embedding
           /\ chunks = <<>> => (db_ret.kind = "ok" /\ db_ret.results = <<>>)

C13_Witness ==
    /\ db_ret.op = "search"
    /\ db_ret.kind = "ok"
    /\ db_ret.top_k = MaxChunks + 1
    /\ Len(chunks) = 3
    /\ ~chunks[2].has_embedding
    /\ Len(db_ret.results) = 2

\* the positions of the chunks of a document
OfDocument(cs, document_id) ==
    {i \in 1..Len(cs) : cs[i].document_id = document_id}

\* C14: delete_by_document(d) removes every stored chunk whose document_id
\* is d and no other, keeps the remaining chunks in their relative order,
\* and returns the number of chunks removed; with no chunk of d it returns
\* 0 and leaves the collection unchanged.
C14_DeleteByDocument ==
    [][db_ret'.op = "delete_by_document"
         => LET gone == OfDocument(chunks, db_ret'.document_id)
            IN  /\ db_ret'.kind = "ok"
                /\ db_ret'.deleted = Cardinality(gone)
                /\ Len(chunks') = Len(chunks) - Cardinality(gone)
                /\ \A i \in (1..Len(chunks)) \ gone :
                     chunks'[i - Cardinality({j \in gone : j < i})] = chunks[i]
                /\ gone = {} => (db_ret'.deleted = 0 /\ chunks' = chunks)]_vars

C14_Witness ==
    /\ db_ret = Deleted("b", 1)
    /\ chunks = <<SomeEmbedding("1", "a", <<1, 0, 0>>),
                  NoEmbedding("4", "a")>>

\* C15: after clear(), whatever came before, count() is 0,
\* get_document_ids() is empty and search returns an empty result for every
\* query and every k.
C15_ClearEmpties ==
    [][db_ret'.op = "clear"
         => /\ count(chunks') = 0
            /\ get_document_ids(chunks') = <<>>
            /\ \A query_embedding \in Queries, top_k \in TopKValues :
                 search(chunks', query_embedding, top_k) =
                    SearchOk(<<>>, query_embedding, top_k)]_vars

C15_Witness ==
    /\ db_ret = Called("clear")
    /\ count(chunks) = 0
    /\ get_document_ids(chunks) = <<>>

\* the query's dimension differs from that of some stored embedding
Mismatch(cs, query_embedding) ==
    \E i \in Embedded(cs) : Len(cs[i].embedding) # Len(query_embedding)

\* C16 (as claimed): when the query's dimension differs from that of some
\* stored chunk's embedding, search returns an error value to its caller
\* and no partial ranked list.
C16_MismatchIsReturnedError ==
    (db_ret.op = "search" /\ Mismatch(chunks, db_ret.query))
        => (db_ret.kind = "err" /\ db_ret.results = <<>>)

\* C19: cosine_similarity returns exactly 0, and neither faults nor fails,
\* whenever one of its equal-length arguments has zero magnitude; so search
\* scores a stored chunk with an all-zero embedding 0, neither skipping it
\* nor failing.
C19_ZeroMagnitudeScoresZero ==
    db_ret.op = "search"
        => /\ ~Mismatch(chunks, db_ret.query) => db_ret.kind = "ok"
           /\ db_ret.kind = "ok"
                => /\ \A i \in Embedded(chunks) :
                        (IsZero(db_ret.query) \/ IsZero(chunks[i].embedding))
                            => cosine_similarity(db_ret.query,
                                                 chunks[i].embedding) = Score(0)
                   /\ \A j \in 1..Len(db_ret.results) :
                        IsZero(db_ret.results[j].chunk.embedding)
                            => db_ret.results[j].score = 0
                   /\ db_ret.top_k >= Cardinality(Embedded(chunks))
                        => \A i \in Embedded(chunks) :
                             \E j \in 1..Len(db_ret.results) :
                                db_ret.results[j].chunk = chunks[i]

C19_Witness ==
    /\ db_ret.op = "search"
    /\ db_ret.kind = "ok"
    /\ db_ret.query = <<1, 0, 0>>
    /\ Len(db_ret.results) = 2
    /\ db_ret.results[1].score = ProbScale
    /\ db_ret.results[2] = SearchResult(SomeEmbedding("3", "b", <<0, 0, 0>>), 0)

\* C20 (as claimed): after any sequence of set, remove and clear calls on a
\* cache created with capacity max_size, size() never exceeds max_size.
C20_SizeWithinCapacity == size(data) <= max_size

\* The case C17 is about does not arise: whenever sample gets as far as
\* step 6, the vector that steps 3-5 leave has a nonzero entry (softmax gives
\* the maximum score a positive probability and both filters keep the
\* highest entry), so no call of sample sees an all-zero distribution.
DistributionNeverAllZero ==
    ret.kind \in {"ok", "panic"}
        => \E i \in 1..Len(final_probs) : final_probs[i] # 0

\* score / penalty^c for a positive score, score * penalty^c otherwise; a
\* positive score divided by 0 is +infinity
PenalizedScore(score, penalty, c) ==
    IF c = 0 THEN score
    ELSE IF score > 0
    THEN IF penalty.num = 0 THEN PosInf
         ELSE RoundDiv(score * Pow(penalty.den, c), Pow(penalty.num, c))
    ELSE RoundDiv(score * Pow(penalty.num, c), Pow(penalty.den, c))

\* C21: with repetition_penalty != 1.0 the repetition-penalty stage of a
\* sample call changes the score at every index i emitted c times before the
\* call to score / penalty^c when it is positive and to score * penalty^c
\* when it is not, and leaves the score of every never-emitted index
\* unchanged.
C21_PenaltyFormula ==
    [][(ret'.kind \in {"ok", "panic"} /\ ~Neutral(config.repetition_penalty))
         => /\ Len(adjusted') = Len(logits)
            /\ \A i \in 1..Len(logits) :
                 adjusted'[i] =
                    PenalizedScore(logits[i], config.repetition_penalty,
                                   CountOf(token_counts, i - 1))]_vars

C21_Witness ==
    /\ ret.kind = "ok"
    /\ config.repetition_penalty = Rat(2, 1)
    /\ Len(generated_tokens) = 3
    /\ generated_tokens[1] = 0
    /\ generated_tokens[2] = 0
    /\ Len(logits) = 2
    /\ logits[1] = 2 * LogitScale
    /\ adjusted[1] = LogitScale \div 2
    /\ adjusted[2] = logits[2]

\* the adjusted score of the index just returned does not go up in the next
\* sample call on the same scores
NextCallNotHigher ==
    \A adj \in Penalized(logits', config', token_counts') :
        adj[ret'.id + 1] <= adjusted'[ret'.id + 1]

C23_GreedyIgnoresFilters ==
    [][(ret'.kind = "ok" /\ config.temperature.num = 0)
         => \A k \in TopKs, p \in TopPs :
              LET other == [config EXCEPT !.top_k = k, !.top_p = p]
              IN  SampleResult(logits, Distribution(adjusted', other),
                               other, 0, TRUE) = ret']_vars

\* the stages of sample after the repetition penalty, each under its own
\* condition, on the adjusted scores adj
StagesInOrder(adj, cfg, probs) ==
    LET scaled == TemperatureScale(adj, cfg.temperature)
        p3 == softmax(scaled)
        p4 == IF 0 < cfg.top_k /\ cfg.top_k < Len(p3)
              THEN top_k_filtering(p3, cfg.top_k) ELSE p3
        p5 == IF cfg.top_p < ProbScale
              THEN top_p_filtering(p4, cfg.top_p) ELSE p4
    IN  probs = p5

\* C24: in stochastic mode the distribution that sample draws from is the
\* result of repetition penalty, temperature scaling, softmax, top-k (only
\* when 0 < top_k < vocabulary size) and top-p (only when top_p < 1.0) in
\* this order, and it has non-negative entries that sum to 1.
C24_PipelineYieldsDistribution ==
    [][(ret'.kind = "ok" /\ config.temperature.num > 0)
         => /\ adjusted' \in Penalized(logits, config, token_counts)
            /\ StagesInOrder(adjusted', config, final_probs')
            /\ IsDistribution(logits, final_probs')]_vars

\* The same restricted to calls whose softmax output is free of NaN: the
\* order and the conditions of the stages are as C24 says.
C24_PipelineOrderWithoutNaN ==
    [][(ret'.kind = "ok" /\ config.temperature.num > 0
        /\ ~HasNaN(final_probs'))
         => /\ adjusted' \in Penalized(logits, config, token_counts)
            /\ StagesInOrder(adjusted', config, final_probs')
            /\ IsDistribution(logits, final_probs')]_vars

\* the 0-based index that inverse-CDF selection over probs gives for the
\* draw u: the first index whose cumulative sum reaches u, else the highest
\* index of nonzero probability
InverseCdf(probs, u) ==
    LET reached == {i \in 1..Len(probs) : SumTo(probs, i) >= u}
        nonzero == NonZeroIdx(probs)
    IN  IF reached # {}
        THEN (CHOOSE i \in reached : \A j \in reached : i <= j) - 1
        ELSE (CHOOSE i \in nonzero : \A j \in nonzero : j <= i) - 1

Drawn == f_fn \in {"multinomial_sample wasm32", "multinomial_sample not wasm32"}

\* C25: for a draw u the selection returns the first index at which the
\* cumulative sum of the final probabilities meets or exceeds u, and the
\* highest index of nonzero probability if the cumulative sum never reaches u.
C25_InverseCdfWithFallback ==
    Drawn => ret = Ok(InverseCdf(f_probs, f_param))

\* The same on the wasm32 build alone, whose cfg block has the fallback loop.
C25_InverseCdfOnWasm32 ==
    f_fn = "multinomial_sample wasm32" => ret = Ok(InverseCdf(f_probs, f_param))

\* C28: in stochastic mode sample never returns an index whose probability in
\* the final distribution is zero, whatever the draw, a draw of exactly 0
\* included.
C28_NeverZeroProbability ==
    (ret.kind = "ok" /\ config.temperature.num > 0 /\ ~HasNaN(final_probs))
        => final_probs[ret.id + 1] > 0

\* C26: a set call that inserts a new key into a cache already holding
\* max_size entries evicts the oldest entry, the key inserted earliest among
\* those present, and nothing else; a set call on a key already present
\* evicts nothing.
C26_EvictsOldest ==
    [][cache_ret'.op = "set"
         => LET added == DOMAIN data' \ DOMAIN data
                evicted == DOMAIN data \ DOMAIN data'
            IN  /\ added = {} => evicted = {}
                /\ (added # {} /\ size(data) >= max_size /\ size(data) > 0)
                      => evicted = {Head(insertion_order)}]_vars

\* The part of C26 about keys already present: such a set call evicts
\* nothing, and a set call never evicts more than one entry.
C26_PresentKeyEvictsNothing ==
    [][cache_ret'.op = "set"
         => LET added == DOMAIN data' \ DOMAIN data
                evicted == DOMAIN data \ DOMAIN data'
            IN  /\ added = {} => evicted = {}
                /\ Cardinality(evicted) <= 1]_vars

\* C27: add_chunk puts the chunk at the end of the collection and raises
\* count() by exactly one, also when the id is already stored and when the
\* chunk has no embedding; count() is 0 after new() and every later call
\* changes it by the number of chunks the call adds minus the number it
\* removes, so that count() is always the number added minus the number
\* removed.
C27_AppendAndCount ==
    /\ db_ret.op = "new" => count(chunks) = 0
    /\ [][/\ db_ret'.op = "add_chunk"
             => /\ count(chunks') = count(chunks) + 1
                /\ SubSeq(chunks', 1, Len(chunks)) = chunks
                /\ chunks'[Len(chunks')] \in Chunk
          /\ db_ret'.op = "add_chunks"
             => /\ count(chunks') = count(chunks) + 2
                /\ SubSeq(chunks', 1, Len(chunks)) = chunks
          /\ db_ret'.op = "delete_by_document"
             => count(chunks') =
                   count(chunks) - Cardinality(OfDocument(chunks, db_ret'.document_id))
          /\ db_ret'.op = "clear" => count(chunks') = count(chunks) - Len(chunks)
          /\ db_ret'.op = "search" => chunks' = chunks]_vars

C27_Witness ==
    /\ db_ret.op = "add_chunk"
    /\ count(chunks) = 3
    /\ chunks[1] = chunks[2]
    /\ ~chunks[3].has_embedding
    /\ chunks[3].id # chunks[1].id

\* what C29 says of the list that chunk returns
ChunksAsClaimed(cs) ==
    /\ \A i \in 1..Len(cs) : cs[i].end_char - cs[i].start_char <= strategy.size
    /\ Len(cs) > 0 => cs[1].start_char = 0
    /\ \A i \in 2..Len(cs) :
          cs[i].start_char = cs[i - 1].end_char - strategy.overlap
    /\ Len(cs) > 0 => cs[Len(cs)].end_char = content_len

\* one iteration of chunk_fixed_size either returns a list as claimed or
\* moves start forward (so that the loop ends after at most content.len()
\* iterations); it never panics
IterationAsClaimed ==
    /\ chunk_pc' # "panicked"
    /\ chunk_pc' = "loop" => start' > start
    /\ chunk_pc' = "returned" => ChunksAsClaimed(doc_chunks')

\* C29: chunk with a FixedSize { size, overlap } strategy terminates for
\* every content, size and overlap, and returns a finite list of chunks in
\* which every content is at most size long, the first chunk starts at 0,
\* every following chunk starts at the previous end minus overlap, and the
\* last chunk ends at the end of the content.
C29_ChunkTerminatesAsClaimed ==
    [][chunk_pc = "loop" => IterationAsClaimed]_vars

\* The same for the strategies with overlap < size.
C29_ChunkWithOverlapBelowSize ==
    [][(chunk_pc = "loop" /\ strategy.overlap < strategy.size)
          => IterationAsClaimed]_vars

\* C30: generate and generate_stream return an error, and generate_stream
\* invokes the callback zero times, unless an earlier load() of the model
\* completed successfully (a model is not loaded at new() and becomes loaded
\* only by a load() that returns Ok); a load() that fails after the
\* tokenizer step and before the weights are fetched leaves is_loaded()
\* false on a model that was never loaded.
C30_NoGenerationBeforeLoad ==
    /\ phi_ret.op = "new" => ~model_loaded
    /\ [][/\ (~model_loaded /\ model_loaded')
                => phi_ret' = PhiCalled("load", "ok")
          /\ (~model_loaded /\ phi_ret'.op \in {"generate", "generate_stream"})
                => /\ phi_ret'.kind = "err"
                   /\ callback_calls' = 0
                   /\ ~model_loaded'
          /\ (~model_loaded /\ phi_ret' = PhiCalled("load", "fetch failed"))
                => /\ tokenizer' = "Some"
                   /\ ~is_loaded(tokenizer', model_loaded')]_vars

C30_Witness ==
    /\ phi_ret.op = "generate_stream"
    /\ phi_ret.kind = "err"
    /\ callback_calls = 0
    /\ tokenizer = "Some"
    /\ ~model_loaded

=============================================================================
